---- MODULE Spec2Model ----
(***************************************************************************)
(* Model of src/src/utils/utils.ts (tshort/memo): the path utilities, the  *)
(* reference token parser, the workspace cache and findReferences.         *)
(*                                                                         *)
(* A JavaScript string is a sequence of one-character strings.  Offsets    *)
(* into a string are 0-based as in the source; the character at offset o   *)
(* of s is s[o + 1].                                                       *)
(***************************************************************************)
EXTENDS Naturals, Integers, Sequences, FiniteSets, TLC

VARIABLES
  heap,          \* the arrays allocated so far; an array reference is an index
  imageUris,     \* workspaceCache.imageUris: a reference into heap
  markdownUris,  \* workspaceCache.markdownUris: a reference into heap
  disk,          \* the paths that exist in the workspace folder right now
  content,       \* the text of each markdown file of the workspace
  cw,            \* the cacheWorkspace() calls: position and pending result
  fr,            \* the findReferences() call: position and locals
  lastOp,        \* history: the last cache operation that wrote a field
  cleans,        \* history: number of cleanWorkspaceCache() calls so far
  arg,           \* the input of a pure-function application
  ret            \* the value that application returned

vars == <<heap, imageUris, markdownUris, disk, content, cw, fr, lastOp, cleans, arg, ret>>

-----------------------------------------------------------------------------
(* Strings *)

Last(s) == s[Len(s)]

\* s.slice(from, to) with 0-based, end-exclusive offsets
Slice(s, from, to) == SubSeq(s, from + 1, to)

\* true iff pat occurs in s at 0-based offset o
OccursAt(s, pat, o) ==
  /\ o + Len(pat) <= Len(s)
  /\ \A k \in 1..Len(pat) : s[o + k] = pat[k]

RECURSIVE Concat(_)
Concat(ss) == IF ss = <<>> THEN <<>> ELSE Head(ss) \o Concat(Tail(ss))

\* all sequences over S of length 0..n
RECURSIVE SeqsUpTo(_, _)
SeqsUpTo(S, n) ==
  IF n = 0 THEN {<<>>}
  ELSE LET shorter == SeqsUpTo(S, n - 1)
       IN  shorter \cup {Append(s, x) : s \in shorter, x \in S}

-----------------------------------------------------------------------------
(* Path utilities, utils.ts:8-24 *)

\* the alternatives of allExtsRegex, in the order the regex tries them
allExts ==
  << <<"m","d">>, <<"p","n","g">>, <<"j","p","g">>, <<"j","p","e","g">>,
     <<"s","v","g">>, <<"g","i","f">> >>

\* the length matched by /\.(md|png|jpg|jpeg|svg|gif)/ at offset o, 0 if none
ExtLenAt(s, o) ==
  IF o < Len(s) /\ s[o + 1] = "."
  THEN LET alts == {k \in 1..Len(allExts) : OccursAt(s, allExts[k], o + 1)}
       IN  IF alts = {} THEN 0
           ELSE 1 + Len(allExts[CHOOSE k \in alts : \A j \in alts : k <= j])
  ELSE 0

\* a variant of allExtsRegex anchored at the end of the string, as
\* markdownExtRegex (utils.ts:10) is: /\.(md|png|jpg|jpeg|svg|gif)$/
allExtsRegexAnchored(s) ==
  LET hits == {o \in 0..(Len(s) - 1) : ExtLenAt(s, o) > 0 /\ o + ExtLenAt(s, o) = Len(s)}
  IN  IF hits = {} THEN -1 ELSE CHOOSE o \in hits : \A p \in hits : o <= p

\* allExtsRegex.exec(s): the offset of the first match, or -1
allExtsRegex(s) ==
  LET hits == {o \in 0..(Len(s) - 1) : ExtLenAt(s, o) > 0}
  IN  IF hits = {} THEN -1 ELSE CHOOSE o \in hits : \A p \in hits : o <= p

\* s.replace(allExtsRegex, ''): the first match removed
ReplaceAllExts(s) ==
  LET o == allExtsRegex(s)
  IN  IF o < 0 THEN s
      ELSE Slice(s, 0, o) \o Slice(s, o + ExtLenAt(s, o), Len(s))

\* the length of the run of character c that starts at offset o
RECURSIVE RunLen(_, _, _)
RunLen(s, c, o) ==
  IF o < Len(s) /\ s[o + 1] = c THEN 1 + RunLen(s, c, o + 1) ELSE 0

\* value.replace(/^\/+|^\\+/g, ''): both alternatives are anchored at offset 0,
\* the first is tried first, and after a match the anchor cannot match again
trimLeadingSlash(value) ==
  LET fwd == RunLen(value, "/", 0)
      bck == RunLen(value, "\\", 0)
  IN  IF fwd > 0 THEN Slice(value, fwd, Len(value))
      ELSE IF bck > 0 THEN Slice(value, bck, Len(value))
      ELSE value

\* value.replace(/\/+|^\\+$/g, '') from offset o on: at each offset the regex
\* tries /\/+/ first, then /^\\+$/, which needs offset 0 and a run of
\* backslashes that reaches the end of the string; an unmatched character is kept
RECURSIVE TrimTrailingFrom(_, _)
TrimTrailingFrom(value, o) ==
  IF o >= Len(value) THEN <<>>
  ELSE LET fwd == RunLen(value, "/", o)
           bck == RunLen(value, "\\", o)
       IN  IF fwd > 0 THEN TrimTrailingFrom(value, o + fwd)
           ELSE IF o = 0 /\ bck = Len(value) THEN <<>>
           ELSE <<value[o + 1]>> \o TrimTrailingFrom(value, o + 1)

trimTrailingSlash(value) == TrimTrailingFrom(value, 0)

trimSlashes(value) == trimLeadingSlash(trimTrailingSlash(value))

\* s.split('|'): the pieces between the separators
RECURSIVE Split(_, _)
Split(s, sep) ==
  LET at == {o \in 0..(Len(s) - 1) : s[o + 1] = sep}
  IN  IF at = {} THEN <<s>>
      ELSE LET o == CHOOSE p \in at : \A q \in at : p <= q
           IN  <<Slice(s, 0, o)>> \o Split(Slice(s, o + 1, Len(s)), sep)

\* path.split('/').length > 1
isLongRef(path) == Len(Split(path, "/")) > 1

-----------------------------------------------------------------------------
(* Reference token parser, utils.ts:26-82 *)

\* s.replace(pat, '') with a string pattern: the first occurrence removed
ReplaceFirst(s, pat) ==
  LET at == {o \in 0..Len(s) : OccursAt(s, pat, o)}
  IN  IF at = {} THEN s
      ELSE LET o == CHOOSE p \in at : \A q \in at : p <= q
           IN  Slice(s, 0, o) \o Slice(s, o + Len(pat), Len(s))

\* s.replace(/\\/gi, '/')
NormalizeBackslashes(s) == [k \in 1..Len(s) |-> IF s[k] = "\\" THEN "/" ELSE s[k]]

\* the result type RefT | null
NullRef == [isNull |-> TRUE, ref |-> <<>>, label |-> <<>>]

\* const [refStr, label = ''] = s.split('|'); return { ref: refStr, label }
RefOf(s) ==
  LET parts == Split(s, "|")
  IN  [isNull |-> FALSE, ref |-> parts[1],
       label |-> IF Len(parts) >= 2 THEN parts[2] ELSE <<>>]

\* path.basename(p) (POSIX): trailing slashes dropped, then the last segment
RECURSIVE DropTrailingSlashes(_)
DropTrailingSlashes(p) ==
  IF p # <<>> /\ Last(p) = "/" THEN DropTrailingSlashes(Slice(p, 0, Len(p) - 1)) ELSE p

basename(p) == Last(Split(DropTrailingSlashes(p), "/"))

extractLongRef(basePathParam, pathParam, preserveExtension) ==
  IF allExtsRegex(pathParam) >= 0
  THEN LET ref == NormalizeBackslashes(ReplaceFirst(pathParam, basePathParam))
       IN  IF preserveExtension
           THEN RefOf(trimLeadingSlash(ref))
           ELSE RefOf(trimLeadingSlash(ReplaceAllExts(ref)))
  ELSE NullRef

extractShortRef(pathParam, preserveExtension) ==
  IF allExtsRegex(pathParam) >= 0
  THEN LET ref == basename(pathParam)
       IN  IF preserveExtension
           THEN RefOf(trimLeadingSlash(ref))
           ELSE RefOf(trimLeadingSlash(ReplaceAllExts(ref)))
  ELSE NullRef

-----------------------------------------------------------------------------
(* Reference locator: the pure part of findReferences, utils.ts:121-129, 165-188 *)

\* the 'i' flag of the search pattern, over the letters the model's texts use
Lower(c) == CASE c = "T" -> "t" [] c = "X" -> "x" [] OTHER -> c

OccursAtIgnoreCase(s, pat, o) ==
  /\ o + Len(pat) <= Len(s)
  /\ \A k \in 1..Len(pat) : Lower(s[o + k]) = Lower(pat[k])

\* the offset just after the longest run of non-newline characters from o: /.*/
RECURSIVE DotStarEnd(_, _)
DotStarEnd(text, o) ==
  IF o < Len(text) /\ text[o + 1] # "\n" THEN DotStarEnd(text, o + 1) ELSE o

\* new RegExp(`\\[\\[(${ref}(\\|.*)?)\\]\\]`, 'gi') tried at offset i, for a ref of
\* ordinary characters: the end offset of the match, or -1.  After "[[" and ref
\* the optional group (\|.*)? is tried first and greedily: .* runs to the end
\* of the line and backtracks to the last "]]" on it; only when that fails is
\* the group left out and "]]" required right after ref.
RefMatchEnd(text, ref, i) ==
  LET k == i + 2 + Len(ref)
  IN  IF ~(OccursAt(text, <<"[", "[">>, i) /\ OccursAtIgnoreCase(text, ref, i + 2))
      THEN -1
      ELSE IF k < Len(text) /\ text[k + 1] = "|"
      THEN LET stop   == DotStarEnd(text, k + 1)
               closes == {p \in (k + 1)..stop : OccursAt(text, <<"]", "]">>, p) /\ p + 2 <= stop}
           IN  IF closes = {} THEN -1
               ELSE (CHOOSE p \in closes : \A q \in closes : q <= p) + 2
      ELSE IF OccursAt(text, <<"]", "]">>, k) THEN k + 2
      ELSE -1

\* matchAll(pattern, text): exec from lastIndex until it returns null; each
\* match is kept as its index and its first capture group $1
RECURSIVE MatchAllFrom(_, _, _)
MatchAllFrom(text, ref, lastIndex) ==
  LET found == {i \in lastIndex..(Len(text) - 1) : RefMatchEnd(text, ref, i) >= 0}
  IN  IF found = {} THEN <<>>
      ELSE LET i == CHOOSE a \in found : \A b \in found : a <= b
               e == RefMatchEnd(text, ref, i)
           IN  <<[index |-> i, g1 |-> Slice(text, i + 2, e - 2)]>>
                 \o MatchAllFrom(text, ref, e)

matchAll(text, ref) == MatchAllFrom(text, ref, 0)

\* TextDocument.positionAt(offset): the offset is clamped to the text, the line
\* is the number of line breaks before it, the character the distance from the
\* start of that line.  The texts of the model break lines with "\n" only, so
\* an offset into the file's content is an offset into the document's text.
positionAt(text, offset) ==
  LET o      == IF offset > Len(text) THEN Len(text) ELSE offset
      breaks == {b \in 1..o : text[b] = "\n"}
      start  == IF breaks = {} THEN 0 ELSE CHOOSE b \in breaks : \A c \in breaks : c <= b
  IN  [line |-> Cardinality(breaks), character |-> o - start]

\* TextDocument.lineAt(position).text: the line without its line break
lineAt(text, position) ==
  LET o == CHOOSE a \in 0..Len(text) : positionAt(text, a) = [line |-> position.line, character |-> 0]
  IN  Slice(text, o, DotStarEnd(text, o))

\* the body of matches.forEach, utils.ts:170-188: one FoundRefT per match
FoundRef(fsPath, text, match) ==
  LET offset    == match.index + 2
      refStart  == positionAt(text, offset)
      lineStart == lineAt(text, refStart)
      from      == IF refStart.character - 2 > 0 THEN refStart.character - 2 ELSE 0
  IN  [fsPath    |-> fsPath,
       refStart  |-> refStart,
       refEnd    |-> positionAt(text, offset + Len(match.g1)),
       matchText |-> Slice(lineStart, from, Len(lineStart))]

FoundRefs(fsPath, text, matches) ==
  [k \in 1..Len(matches) |-> FoundRef(fsPath, text, matches[k])]

-----------------------------------------------------------------------------
(* The workspace and the bounds of the model *)

MaxCacheOps == 2     \* cacheWorkspace() and cleanWorkspaceCache() calls in one behaviour
MaxDeletes == 1      \* markdown files deleted from the workspace in one behaviour
MaxDocFrags == 3     \* fragments a scanned document is composed of
MaxPathFrags == 3    \* fragments a path given to the token parser is composed of
MaxLen == 5          \* length of a string given to the slash trimmers

\* the workspace folder, in the order the file enumeration reports it
MarkdownFiles == <<"a.md", "b.md">>
ImageFiles == <<"p.png">>

ToSet(s) == {s[k] : k \in 1..Len(s)}

AllFiles == ToSet(MarkdownFiles) \cup ToSet(ImageFiles)

\* a.md: [[t]]      b.md: ![[t|x]] x  then, on a second line, x[[T]]
WorkspaceContent ==
  [f \in ToSet(MarkdownFiles) |->
     IF f = "a.md"
     THEN <<"[", "[", "t", "]", "]">>
     ELSE <<"!", "[", "[", "t", "|", "x", "]", "]", " ", "x", "\n",
            "x", "[", "[", "T", "]", "]">>]

\* the refs findReferences is called with
Refs == {<<"t">>}

\* the cacheWorkspace() calls, numbered in the order they start
Calls == 1..MaxCacheOps

\* workspace.findFiles(glob): the files of that kind that exist right now
findFiles(kind) == SelectSeq(kind, LAMBDA f : f \in disk)

-----------------------------------------------------------------------------
(* State machine *)

NoCall == [fn |-> "none", basePathParam |-> <<>>, pathParam |-> <<>>,
           preserveExtension |-> FALSE]

\* a cacheWorkspace() call: its position, the value its pending await got, and
\* history: the arrays it assigned to imageUris and markdownUris (0 before),
\* and whether the cache write before its second assignment was its first
CwIdle == [pc |-> "idle", awaited |-> <<>>, img |-> 0, md |-> 0, alone |-> FALSE]

\* the findReferences() call: its position, parameters and locals (the array
\* the loop iterates and the iterator's index, fsPath, matches, refs), and
\* history: the array's elements and the last cache write when the loop
\* started, the kinds of cache write made while the call was suspended, and
\* the paths the loop visited, read and opened
FrIdle == [pc |-> "idle", ref |-> <<>>, excludePaths |-> {}, arr |-> 0, idx |-> 0,
           fsPath |-> "", refs |-> <<>>, matches |-> <<>>, start |-> <<>>,
           after |-> <<"init", 0>>, during |-> {}, visited |-> <<>>, read |-> {},
           opened |-> {}]

\* utils.ts:84-87: the cache starts with two empty arrays
InitProgram ==
  /\ heap = << <<>>, <<>> >>
  /\ imageUris = 1
  /\ markdownUris = 2
  /\ disk = AllFiles
  /\ cw = [c \in Calls |-> CwIdle]
  /\ fr = FrIdle
  /\ lastOp = <<"init", 0>>
  /\ cleans = 0

Init ==
  /\ InitProgram
  /\ content = WorkspaceContent
  /\ arg = NoCall
  /\ ret = <<>>

\* JavaScript runs one synchronous section at a time: while findReferences is
\* between two awaits no other call of this module starts or resumes
JsFree == fr.pc # "loop"

\* the cacheWorkspace() calls started so far
Started == {c \in Calls : cw[c].pc # "idle"}

\* history: fr with a cache write recorded when it falls into the call's await
Observed(kind) ==
  IF fr.pc = "open" THEN [fr EXCEPT !.during = fr.during \cup {kind}] ELSE fr

\* cacheWorkspace(), utils.ts:92: workspace.findFiles(images) is called and
\* awaited.  Any number of calls may be in flight; call c is the c-th to start.
CacheStart(c) ==
  /\ JsFree
  /\ cw[c].pc = "idle"
  /\ Started = 1..(c - 1)
  /\ Cardinality(Started) + cleans < MaxCacheOps
  /\ cw' = [cw EXCEPT ![c].pc = "findImages"]
  /\ UNCHANGED <<heap, imageUris, markdownUris, disk, content, fr, lastOp, cleans, arg, ret>>

\* the editor finishes the image enumeration: the awaited promise gets its value
FindFilesImages(c) ==
  /\ cw[c].pc = "findImages"
  /\ cw' = [cw EXCEPT ![c].pc = "gotImages", ![c].awaited = findFiles(ImageFiles)]
  /\ UNCHANGED <<heap, imageUris, markdownUris, disk, content, fr, lastOp, cleans, arg, ret>>

\* utils.ts:92-93: the call resumes, assigns workspaceCache.imageUris, then calls
\* workspace.findFiles(markdown) and awaits it
CacheAssignImages(c) ==
  /\ JsFree
  /\ cw[c].pc = "gotImages"
  /\ heap' = Append(heap, cw[c].awaited)
  /\ imageUris' = Len(heap) + 1
  /\ cw' = [cw EXCEPT ![c].pc = "findMarkdown", ![c].img = Len(heap) + 1]
  /\ lastOp' = <<"cacheImages", c>>
  /\ fr' = Observed("cacheImages")
  /\ UNCHANGED <<markdownUris, disk, content, cleans, arg, ret>>

\* the editor finishes the markdown enumeration
FindFilesMarkdown(c) ==
  /\ cw[c].pc = "findMarkdown"
  /\ cw' = [cw EXCEPT ![c].pc = "gotMarkdown", ![c].awaited = findFiles(MarkdownFiles)]
  /\ UNCHANGED <<heap, imageUris, markdownUris, disk, content, fr, lastOp, cleans, arg, ret>>

\* a variant of CacheAssignMarkdown with the second assignment written to the
\* wrong field (imageUris again)
CacheAssignWrongField(c) ==
  /\ JsFree
  /\ cw[c].pc = "gotMarkdown"
  /\ heap' = Append(heap, cw[c].awaited)
  /\ imageUris' = Len(heap) + 1
  /\ cw' = [cw EXCEPT ![c].pc = "done", ![c].md = Len(heap) + 1,
                      ![c].alone = (lastOp = <<"cacheImages", c>>)]
  /\ lastOp' = <<"cacheMarkdown", c>>
  /\ fr' = Observed("cacheMarkdown")
  /\ UNCHANGED <<markdownUris, disk, content, cleans, arg, ret>>

\* utils.ts:93-94: the call resumes, assigns workspaceCache.markdownUris and returns
CacheAssignMarkdown(c) ==
  /\ JsFree
  /\ cw[c].pc = "gotMarkdown"
  /\ heap' = Append(heap, cw[c].awaited)
  /\ markdownUris' = Len(heap) + 1
  /\ cw' = [cw EXCEPT ![c].pc = "done", ![c].md = Len(heap) + 1,
                      ![c].alone = (lastOp = <<"cacheImages", c>>)]
  /\ lastOp' = <<"cacheMarkdown", c>>
  /\ fr' = Observed("cacheMarkdown")
  /\ UNCHANGED <<imageUris, disk, content, cleans, arg, ret>>

\* a variant of cleanWorkspaceCache that resets imageUris only
cleanImagesOnly ==
  /\ JsFree
  /\ Cardinality(Started) + cleans < MaxCacheOps
  /\ heap' = Append(heap, <<>>)
  /\ imageUris' = Len(heap) + 1
  /\ lastOp' = <<"clean", 0>>
  /\ cleans' = cleans + 1
  /\ fr' = Observed("clean")
  /\ UNCHANGED <<markdownUris, disk, content, cw, arg, ret>>

\* a variant of cleanWorkspaceCache that empties the two cached arrays in place
\* (imageUris.length = 0; markdownUris.length = 0) instead of assigning new ones
cleanInPlace ==
  /\ JsFree
  /\ Cardinality(Started) + cleans < MaxCacheOps
  /\ heap' = [heap EXCEPT ![imageUris] = <<>>, ![markdownUris] = <<>>]
  /\ lastOp' = <<"clean", 0>>
  /\ cleans' = cleans + 1
  /\ fr' = Observed("clean")
  /\ UNCHANGED <<imageUris, markdownUris, disk, content, cw, arg, ret>>

\* cleanWorkspaceCache(), utils.ts:96-99: two new empty arrays are assigned
cleanWorkspaceCache ==
  /\ JsFree
  /\ Cardinality(Started) + cleans < MaxCacheOps
  /\ heap' = heap \o << <<>>, <<>> >>
  /\ imageUris' = Len(heap) + 1
  /\ markdownUris' = Len(heap) + 2
  /\ lastOp' = <<"clean", 0>>
  /\ cleans' = cleans + 1
  /\ fr' = Observed("clean")
  /\ UNCHANGED <<disk, content, cw, arg, ret>>

\* findReferences(ref, excludePaths), utils.ts:154-160: refs = [] and the for-of
\* loop takes an iterator over the array workspaceCache.markdownUris refers to
FindStart(ref, excludePaths) ==
  /\ JsFree
  /\ fr.pc = "idle"
  /\ fr' = [FrIdle EXCEPT !.pc = "loop", !.ref = ref, !.excludePaths = excludePaths,
                          !.arr = markdownUris, !.idx = 0, !.start = heap[markdownUris],
                          !.after = lastOp]
  /\ UNCHANGED <<heap, imageUris, markdownUris, disk, content, cw, lastOp, cleans, arg, ret>>

\* a variant of FindStep without the excludePaths test of utils.ts:161-163
FindStepNoExclude ==
  /\ fr.pc = "loop"
  /\ IF fr.idx >= Len(heap[fr.arr])
     THEN fr' = [fr EXCEPT !.pc = "done"]
     ELSE LET fsPath == heap[fr.arr][fr.idx + 1]
              seen   == [fr EXCEPT !.fsPath = fsPath, !.visited = Append(fr.visited, fsPath)]
          IN  IF fsPath \notin disk
              THEN fr' = [seen EXCEPT !.pc = "failed", !.read = fr.read \cup {fsPath}]
              ELSE LET matches == matchAll(content[fsPath], fr.ref)
                   IN  IF matches = <<>>
                       THEN fr' = [seen EXCEPT !.idx = fr.idx + 1,
                                               !.read = fr.read \cup {fsPath}]
                       ELSE fr' = [seen EXCEPT !.pc = "open", !.matches = matches,
                                               !.read = fr.read \cup {fsPath}]
  /\ UNCHANGED <<heap, imageUris, markdownUris, disk, content, cw, lastOp, cleans, arg, ret>>

\* one iteration of the loop up to its await, utils.ts:160-169.  The array
\* iterator reads the array's current length and element; an excluded path is
\* skipped; fs.readFileSync throws for a path that no longer exists and nothing
\* catches it, so the call rejects; with no match the loop goes on; with matches
\* the call awaits vscode.workspace.openTextDocument
FindStep ==
  /\ fr.pc = "loop"
  /\ IF fr.idx >= Len(heap[fr.arr])
     THEN fr' = [fr EXCEPT !.pc = "done"]
     ELSE LET fsPath == heap[fr.arr][fr.idx + 1]
              seen   == [fr EXCEPT !.fsPath = fsPath, !.visited = Append(fr.visited, fsPath)]
          IN  IF fsPath \in fr.excludePaths
              THEN fr' = [seen EXCEPT !.idx = fr.idx + 1]
              ELSE IF fsPath \notin disk
              THEN fr' = [seen EXCEPT !.pc = "failed", !.read = fr.read \cup {fsPath}]
              ELSE LET matches == matchAll(content[fsPath], fr.ref)
                   IN  IF matches = <<>>
                       THEN fr' = [seen EXCEPT !.idx = fr.idx + 1,
                                               !.read = fr.read \cup {fsPath}]
                       ELSE fr' = [seen EXCEPT !.pc = "open", !.matches = matches,
                                               !.read = fr.read \cup {fsPath}]
  /\ UNCHANGED <<heap, imageUris, markdownUris, disk, content, cw, lastOp, cleans, arg, ret>>

\* utils.ts:169-190: the document is open and the call resumes: one FoundRefT
\* is pushed per match, then the loop goes on.  openTextDocument rejects for a
\* file that was deleted while the call was suspended, and the call with it.
FindResume ==
  /\ fr.pc = "open"
  /\ LET fsPath == fr.fsPath
     IN  IF fsPath \notin disk
         THEN fr' = [fr EXCEPT !.pc = "failed", !.opened = fr.opened \cup {fsPath}]
         ELSE fr' = [fr EXCEPT !.pc = "loop", !.idx = fr.idx + 1, !.matches = <<>>,
                               !.opened = fr.opened \cup {fsPath},
                               !.refs = fr.refs \o FoundRefs(fsPath, content[fsPath], fr.matches)]
  /\ UNCHANGED <<heap, imageUris, markdownUris, disk, content, cw, lastOp, cleans, arg, ret>>

\* the environment: a markdown file of the workspace, one of the files
\* findReferences reads, is deleted
DeleteFile(f) ==
  /\ f \in disk
  /\ Cardinality(AllFiles \ disk) < MaxDeletes
  /\ disk' = disk \ {f}
  /\ UNCHANGED <<heap, imageUris, markdownUris, content, cw, fr, lastOp, cleans, arg, ret>>

Next ==
  \/ \E c \in Calls : CacheStart(c)
  \/ \E c \in Calls : FindFilesImages(c)
  \/ \E c \in Calls : CacheAssignImages(c)
  \/ \E c \in Calls : FindFilesMarkdown(c)
  \/ \E c \in Calls : CacheAssignMarkdown(c)
  \/ cleanWorkspaceCache
  \/ \E ref \in Refs, excludePaths \in SUBSET ToSet(MarkdownFiles) : FindStart(ref, excludePaths)
  \/ FindStep
  \/ FindResume
  \/ \E f \in ToSet(MarkdownFiles) : DeleteFile(f)

Spec == Init /\ [][Next]_vars

-----------------------------------------------------------------------------
(* The scan of one document: a.md holds any text composed of up to MaxDocFrags
   fragments; one populate, then one findReferences call, no deletion *)

DocFrags ==
  { <<"[", "[", "t", "]", "]">>,
    <<"[", "[", "T", "|", "x", "]", "]">>,
    <<"!", "[", "[", "t", "]", "]">>,
    <<"x">>,
    <<"\n">> }

Docs == {Concat(fs) : fs \in SeqsUpTo(DocFrags, MaxDocFrags)}

InitDoc ==
  /\ InitProgram
  /\ content \in {[WorkspaceContent EXCEPT !["a.md"] = d] : d \in Docs}
  /\ arg = NoCall
  /\ ret = <<>>

NextDoc ==
  \/ CacheStart(1)
  \/ FindFilesImages(1)
  \/ CacheAssignImages(1)
  \/ FindFilesMarkdown(1)
  \/ CacheAssignMarkdown(1)
  \/ \E ref \in Refs, excludePaths \in {{}, {"b.md"}} : FindStart(ref, excludePaths)
  \/ FindStep
  \/ FindResume

SpecDoc == InitDoc /\ [][NextDoc]_vars

-----------------------------------------------------------------------------
(* Claims about the workspace cache and the scan, checked under Spec *)

\* C1 as stated: no state is observable in which a cacheWorkspace() call has
\* already replaced imageUris while markdownUris is not yet replaced by it.
C1_NoHalfReplacedCache ==
  \A c \in Calls :
    cw[c].pc \in {"findMarkdown", "gotMarkdown"}
      => ~(imageUris = cw[c].img /\ markdownUris # cw[c].md)

\* C1 amended: a cacheWorkspace() call has made both assignments when it
\* completes, imageUris first and markdownUris second.  At its completion
\* markdownUris is the array holding its markdown enumeration and, when no
\* other populate or clear wrote the cache between its two assignments,
\* imageUris is still the array it assigned.  (lastOp names the completing
\* call from its completion until the next write to the cache.)
C1_BothAssignedAtCompletion ==
  \A c \in Calls :
    /\ cw[c].pc = "done" => cw[c].img # 0 /\ cw[c].img < cw[c].md
    /\ lastOp = <<"cacheMarkdown", c>> =>
         /\ cw[c].pc = "done"
         /\ markdownUris = cw[c].md
         /\ heap[markdownUris] = cw[c].awaited
         /\ cw[c].alone => imageUris = cw[c].img

\* a populate has completed with nothing written between its two assignments,
\* and found files of both kinds
C1_Witness ==
  \E c \in Calls :
    /\ cw[c].pc = "done"
    /\ lastOp = <<"cacheMarkdown", c>>
    /\ cw[c].alone
    /\ imageUris = cw[c].img
    /\ markdownUris = cw[c].md
    /\ heap[imageUris] # <<>>
    /\ heap[markdownUris] # <<>>

\* the hits of one readable file, as the loop body computes them
FileRefs(f, ref) == FoundRefs(f, content[f], matchAll(content[f], ref))

\* the hits of the files of list that are in keep, in list order
RECURSIVE RefsOver(_, _, _)
RefsOver(list, ref, keep) ==
  IF list = <<>> THEN <<>>
  ELSE (IF Head(list) \in keep THEN FileRefs(Head(list), ref) ELSE <<>>)
         \o RefsOver(Tail(list), ref, keep)

\* C2 as stated: findReferences never fails because a cached file was
\* deleted; the deleted files are skipped and the call returns exactly the
\* hits of the files that are still readable.
C2_MissingFileIsSkipped ==
  /\ fr.pc # "failed"
  /\ fr.pc = "done" =>
       fr.refs = RefsOver(fr.start, fr.ref, disk \ fr.excludePaths)

\* C4: no hit lies in an excluded file, no excluded file is read or opened,
\* and the list returned is the list an unrestricted scan of the same cached
\* files computes with exactly the excluded files' hits removed, in the same
\* order.
C4_ExcludedPathsSkipped ==
  /\ \A k \in 1..Len(fr.refs) : fr.refs[k].fsPath \notin fr.excludePaths
  /\ (fr.read \cup fr.opened) \cap fr.excludePaths = {}
  /\ fr.pc = "done" =>
       fr.refs = SelectSeq(RefsOver(fr.start, fr.ref, ToSet(fr.start)),
                           LAMBDA h : h.fsPath \notin fr.excludePaths)

\* a scan has returned hits although a cached file with hits was excluded
C4_Witness ==
  /\ fr.pc = "done"
  /\ fr.refs # <<>>
  /\ \E f \in fr.excludePaths : f \in ToSet(fr.start) /\ FileRefs(f, fr.ref) # <<>>

\* C5: when the last write to the cache was cleanWorkspaceCache(), both lists
\* are empty; and a findReferences call whose loop started on an empty list
\* (after a clear, or before any populate) returns the empty list and never fails.
C5_CleanEmptiesBothLists ==
  /\ lastOp = <<"clean", 0>> => heap[imageUris] = <<>> /\ heap[markdownUris] = <<>>
  /\ (fr.pc # "idle" /\ fr.after \in {<<"clean", 0>>, <<"init", 0>>}) =>
       /\ fr.start = <<>>
       /\ fr.pc \in {"loop", "done"}
       /\ fr.refs = <<>>

\* a populate that found files completed, the cache was cleared after it, and
\* a findReferences call started after the clear has returned
C5_Witness ==
  /\ lastOp = <<"clean", 0>>
  /\ \E c \in Calls : cw[c].pc = "done" /\ cw[c].md < markdownUris /\ heap[cw[c].md] # <<>>
  /\ fr.pc = "done"
  /\ fr.after = <<"clean", 0>>

IndexIn(list, f) == CHOOSE k \in 1..Len(list) : list[k] = f

Before(p, q) == p.line < q.line \/ (p.line = q.line /\ p.character < q.character)

\* C10: the array the in-flight scan iterates keeps the elements it had when the
\* loop started, whatever populate and clear calls run at its suspension
\* points; the files visited are a prefix of that starting list, all of it
\* when the call returns; and the hits are in that list's file order, then in
\* match order within a file.
C10_ScanKeepsStartingList ==
  fr.pc # "idle" =>
    /\ heap[fr.arr] = fr.start
    /\ Len(fr.visited) <= Len(fr.start)
    /\ fr.visited = SubSeq(fr.start, 1, Len(fr.visited))
    /\ fr.pc = "done" => fr.visited = fr.start
    /\ \A i, j \in 1..Len(fr.refs) :
         i < j =>
           LET a == fr.refs[i]
               b == fr.refs[j]
           IN  \/ IndexIn(fr.start, a.fsPath) < IndexIn(fr.start, b.fsPath)
               \/ a.fsPath = b.fsPath /\ Before(a.refStart, b.refStart)

\* a scan over two or more files was suspended at its document-open await
\* while another cacheWorkspace() call replaced markdownUris, and has
\* returned hits of two files
C10_Witness ==
  /\ fr.pc = "done"
  /\ Len(fr.start) >= 2
  /\ "cacheMarkdown" \in fr.during
  /\ markdownUris # fr.arr
  /\ \E i, j \in 1..Len(fr.refs) : fr.refs[i].fsPath # fr.refs[j].fsPath

\* a scan was suspended at its document-open await while
\* cleanWorkspaceCache() replaced both lists, and has returned its hits
ClearDuringScan ==
  /\ fr.pc = "done"
  /\ "clean" \in fr.during
  /\ fr.refs # <<>>

-----------------------------------------------------------------------------
(* Claims about the hits of a document, checked under SpecDoc *)

NoBracket(text, from, to) == \A o \in from..(to - 1) : text[o + 1] \notin {"[", "]"}

\* the reference tokens of text for ref, each as <<offset of its "[[", offset
\* of its "]]">>: the token shape of refPattern (utils.ts:14), "[[" inner "]]"
\* with no bracket in inner, where inner is ref or ref|label, ref compared
\* case-insensitively
Tokens(text, ref) ==
  {t \in (0..Len(text)) \X (0..Len(text)) :
     /\ OccursAt(text, <<"[", "[">>, t[1])
     /\ OccursAt(text, <<"]", "]">>, t[2])
     /\ t[1] + 2 < t[2]
     /\ NoBracket(text, t[1] + 2, t[2])
     /\ OccursAtIgnoreCase(text, ref, t[1] + 2)
     /\ (t[1] + 2 + Len(ref) = t[2] \/ text[t[1] + 2 + Len(ref) + 1] = "|")}

RefsIn(f) == SelectSeq(fr.refs, LAMBDA h : h.fsPath = f)

\* C3 as stated: the call returns exactly one hit per token [[ref]] or
\* [[ref|label]] of each scanned document, and each hit's range is the inner
\* text of its token: from just after its "[[" to just before its "]]".
C3_OneHitPerToken ==
  fr.pc = "done" =>
    \A f \in ToSet(fr.start) \ fr.excludePaths :
      LET hits == RefsIn(f)
          toks == Tokens(content[f], fr.ref)
      IN  /\ Len(hits) = Cardinality(toks)
          /\ {<<hits[k].refStart, hits[k].refEnd>> : k \in 1..Len(hits)}
               = {<<positionAt(content[f], t[1] + 2), positionAt(content[f], t[2])>> : t \in toks}

\* the text of the line a hit lies on, from the file's text split at line breaks
LineOf(h) == Split(content[h.fsPath], "\n")[h.refStart.line + 1]

\* C6: matchText is a tail of the hit's line, through the end of that line,
\* that starts at or before the column of the token's "[[" and, when that
\* "[[" is immediately preceded on its line by "!", includes that "!".
C6_SnippetKeepsEmbedMarker ==
  \A k \in 1..Len(fr.refs) :
    LET h == fr.refs[k]
        c == h.refStart.character
        line == LineOf(h)
    IN  /\ c >= 2
        /\ \E from \in 0..(c - 2) : h.matchText = Slice(line, from, Len(line))
        /\ (c >= 3 /\ line[c - 2] = "!") =>
              \E from \in 0..(c - 3) : h.matchText = Slice(line, from, Len(line))

-----------------------------------------------------------------------------
(* The pure functions: Init draws one call, the actions apply the function *)

SlashStrings == SeqsUpTo({"/", "\\", "a"}, MaxLen)

PathFrags ==
  { <<"a">>, <<"a", ".", "m", "d">>, <<".", "j", "p", "e", "g">>, <<".">>,
    <<"/">>, <<"\\">>, <<"|">> }

BasePaths == { <<>>, <<"/", "n", "o", "t", "e", "s", "/">> }

Paths == {b \o Concat(fs) : b \in BasePaths, fs \in SeqsUpTo(PathFrags, MaxPathFrags)}

PureCalls ==
  [fn : {"trimLeadingSlash", "trimTrailingSlash", "trimSlashes"},
   basePathParam : {<<>>}, pathParam : SlashStrings, preserveExtension : {FALSE}]
  \cup
  [fn : {"extractLongRef"},
   basePathParam : BasePaths, pathParam : Paths, preserveExtension : BOOLEAN]
  \cup
  [fn : {"extractShortRef"},
   basePathParam : {<<>>}, pathParam : Paths, preserveExtension : BOOLEAN]

InitPure ==
  /\ InitProgram
  /\ content = WorkspaceContent
  /\ arg \in PureCalls
  /\ ret = <<>>

CallTrimLeadingSlash ==
  /\ arg.fn = "trimLeadingSlash"
  /\ ret = <<>>
  /\ ret' = <<trimLeadingSlash(arg.pathParam)>>
  /\ UNCHANGED <<heap, imageUris, markdownUris, disk, content, cw, fr, lastOp, cleans, arg>>

CallTrimTrailingSlash ==
  /\ arg.fn = "trimTrailingSlash"
  /\ ret = <<>>
  /\ ret' = <<trimTrailingSlash(arg.pathParam)>>
  /\ UNCHANGED <<heap, imageUris, markdownUris, disk, content, cw, fr, lastOp, cleans, arg>>

CallTrimSlashes ==
  /\ arg.fn = "trimSlashes"
  /\ ret = <<>>
  /\ ret' = <<trimSlashes(arg.pathParam)>>
  /\ UNCHANGED <<heap, imageUris, markdownUris, disk, content, cw, fr, lastOp, cleans, arg>>

CallExtractLongRef ==
  /\ arg.fn = "extractLongRef"
  /\ ret = <<>>
  /\ ret' = <<extractLongRef(arg.basePathParam, arg.pathParam, arg.preserveExtension)>>
  /\ UNCHANGED <<heap, imageUris, markdownUris, disk, content, cw, fr, lastOp, cleans, arg>>

CallExtractShortRef ==
  /\ arg.fn = "extractShortRef"
  /\ ret = <<>>
  /\ ret' = <<extractShortRef(arg.pathParam, arg.preserveExtension)>>
  /\ UNCHANGED <<heap, imageUris, markdownUris, disk, content, cw, fr, lastOp, cleans, arg>>

NextPure ==
  \/ CallTrimLeadingSlash
  \/ CallTrimTrailingSlash
  \/ CallTrimSlashes
  \/ CallExtractLongRef
  \/ CallExtractShortRef

SpecPure == InitPure /\ [][NextPure]_vars

-----------------------------------------------------------------------------
(* Claims about the pure functions, checked under SpecPure *)

EndsWith(s, suffix) == Len(suffix) <= Len(s) /\ OccursAt(s, suffix, Len(s) - Len(suffix))

DotExts == {<<".">> \o allExts[k] : k \in 1..Len(allExts)}

\* the part of s before its first sep, and the part after it (empty without sep)
BeforeFirst(s, sep) ==
  IF \E k \in 1..Len(s) : s[k] = sep
  THEN SubSeq(s, 1, (CHOOSE k \in 1..Len(s) : s[k] = sep /\ \A j \in 1..(k - 1) : s[j] # sep) - 1)
  ELSE s

AfterFirst(s, sep) ==
  IF \E k \in 1..Len(s) : s[k] = sep
  THEN SubSeq(s, (CHOOSE k \in 1..Len(s) : s[k] = sep /\ \A j \in 1..(k - 1) : s[j] # sep) + 1, Len(s))
  ELSE <<>>

\* s without the recognized extension it ends with
WithoutExt(s) ==
  LET e == CHOOSE d \in DotExts : EndsWith(s, d) /\ \A d2 \in DotExts : EndsWith(s, d2) => Len(d2) <= Len(d)
  IN  SubSeq(s, 1, Len(s) - Len(e))

\* s without the run of slashes it starts with
RECURSIVE DropLeading(_, _)
DropLeading(s, chars) ==
  IF s # <<>> /\ Head(s) \in chars THEN DropLeading(Tail(s), chars) ELSE s

\* s without the run of slashes it ends with
RECURSIVE DropTrailing(_, _)
DropTrailing(s, chars) ==
  IF s # <<>> /\ Last(s) \in chars THEN DropTrailing(SubSeq(s, 1, Len(s) - 1), chars) ELSE s

\* C7 as stated: for a rawPath that starts with basePath and whose path part
\* (before any '|') ends with a recognized extension, ref is rawPath without
\* the basePath prefix, with backslashes turned into '/', the leading slash
\* run trimmed and, unless preserveExtension, only that extension removed;
\* label is the text after the first '|', or empty.
C7_LongRefKeepsRelativePath ==
  (/\ arg.fn = "extractLongRef"
   /\ ret # <<>>
   /\ OccursAt(arg.pathParam, arg.basePathParam, 0)
   /\ \E d \in DotExts : EndsWith(BeforeFirst(arg.pathParam, "|"), d))
  => LET rest == NormalizeBackslashes(
                   SubSeq(arg.pathParam, Len(arg.basePathParam) + 1, Len(arg.pathParam)))
         rel  == DropLeading(BeforeFirst(rest, "|"), {"/"})
     IN  /\ ~ret[1].isNull
         /\ ret[1].ref = (IF arg.preserveExtension THEN rel ELSE WithoutExt(rel))
         /\ ret[1].label = AfterFirst(rest, "|")

\* a string holds a recognized extension: "." followed by one of the names
ContainsExt(s) == \E o \in 0..Len(s), d \in DotExts : OccursAt(s, d, o)

\* C8: extractLongRef and extractShortRef return null exactly for the strings
\* that hold none of .md .png .jpg .jpeg .svg .gif, whatever the base path and
\* preserveExtension are.
C8_NullIffNoExtension ==
  (arg.fn \in {"extractLongRef", "extractShortRef"} /\ ret # <<>>)
    => (ret[1].isNull <=> ~ContainsExt(arg.pathParam))

\* extractLongRef returned null for a path with a dot and a directory part,
\* called with a non-empty base path and preserveExtension
C8_Witness ==
  /\ arg.fn = "extractLongRef"
  /\ ret # <<>>
  /\ ret[1].isNull
  /\ arg.preserveExtension
  /\ arg.basePathParam # <<>>
  /\ {".", "/", "a"} \subseteq ToSet(arg.pathParam)

\* C9 as stated: trimSlashes(x) is x without its leading and its trailing run
\* of '/' or '\', every interior character kept; and trimSlashes is idempotent.
C9_TrimSlashesKeepsInterior ==
  (arg.fn = "trimSlashes" /\ ret # <<>>)
    => /\ ret[1] = DropLeading(DropTrailing(arg.pathParam, {"/", "\\"}), {"/", "\\"})
       /\ trimSlashes(ret[1]) = ret[1]

====
